---- MODULE Spec2Model ----
(***************************************************************************)
(* Model of the two Ansible modules library/conrep.py (flat adapter) and   *)
(* library/hprcu.py (structured adapter): one invocation of run_module,    *)
(* step by step, against a backend executable that dumps and loads a       *)
(* settings document.                                                      *)
(*                                                                         *)
(* Python values are represented as follows.                               *)
(*   dict          sequence of <<key, value>> pairs with distinct keys, in *)
(*                 insertion order                                         *)
(*   None          the record None                                         *)
(*   ElementTree   [root |-> sequence of child elements]                   *)
(*   '' / XML text the settings_xml parameter is None for the empty string *)
(*                 and the ElementTree it parses to otherwise              *)
(*   exception     [type |-> class name as the interpreter resolves it,    *)
(*                  msg |-> which message of the source it carries]        *)
(***************************************************************************)
EXTENDS Integers, Sequences, FiniteSets, TLC

VARIABLES adapter, params, check_mode, diff_mode, backend,
          pc, old_settings, settings, old_doc, doc, changed,
          result, outcome, err, calls, loaded,
          a_doc, a_h, a_log

vars == <<adapter, params, check_mode, diff_mode, backend,
          pc, old_settings, settings, old_doc, doc, changed,
          result, outcome, err, calls, loaded,
          a_doc, a_h, a_log>>

run_vars == <<adapter, params, check_mode, diff_mode, backend,
              pc, old_settings, settings, old_doc, doc, changed,
              result, outcome, err, calls, loaded>>

apply_vars == <<a_doc, a_h, a_log>>

(***************************************************************************)
(* Bounds of the model.                                                    *)
(***************************************************************************)
\* children of the root element in a document dumped by the backend
MaxDump == 2
\* children of the root element in a settings_xml document
MaxXml == 2
\* keys of the settings parameter
MaxSettings == 2

None == [none |-> TRUE]

(***************************************************************************)
(* Python helpers.                                                         *)
(***************************************************************************)
DictKeys(d) == {d[i][1] : i \in DOMAIN d}

DictHas(d, k) == \E i \in DOMAIN d : d[i][1] = k

DictGet(d, k) == d[CHOOSE i \in DOMAIN d : d[i][1] = k][2]

DictSet(d, k, v) ==
    IF DictHas(d, k)
    THEN [i \in DOMAIN d |-> IF d[i][1] = k THEN <<k, v>> ELSE d[i]]
    ELSE Append(d, <<k, v>>)

RECURSIVE Join(_, _)
Join(sep, xs) ==
    IF xs = <<>> THEN ""
    ELSE IF Len(xs) = 1 THEN xs[1]
    ELSE xs[1] \o sep \o Join(sep, Tail(xs))

RemoveAt(s, i) == SubSeq(s, 1, i - 1) \o SubSeq(s, i + 1, Len(s))

\* the order of the key strings the model uses under Python's string comparison
NameOrder == <<"Nope", "PowerMonitoring", "Turbo">>

Rank(k) == CHOOSE i \in DOMAIN NameOrder : NameOrder[i] = k

RECURSIVE SortedItems(_)
SortedItems(d) ==
    IF d = <<>> THEN <<>>
    ELSE LET i == CHOOSE i \in DOMAIN d :
                    \A j \in DOMAIN d : Rank(d[i][1]) <= Rank(d[j][1])
         IN  <<d[i]>> \o SortedItems(RemoveAt(d, i))

Raise(type, msg) == [type |-> type, msg |-> msg]

(***************************************************************************)
(* conrep.py                                                               *)
(***************************************************************************)
\* an element of a Conrep document; kids holds the serialised child elements
Section(name, text, kids) ==
    [tag |-> "Section", name |-> name, text |-> text, kids |-> kids]

RECURSIVE parse_dat_from(_, _)
parse_dat_from(es, h) ==
    IF es = <<>> THEN h
    ELSE LET e == Head(es)
             v == IF e.kids # <<>> THEN Join("", e.kids) ELSE e.text
         IN  IF e.tag # "Section"
             THEN parse_dat_from(Tail(es), h)
             ELSE parse_dat_from(Tail(es), DictSet(h, e.name, v))

parse_dat(d) == parse_dat_from(d.root, <<>>)

\* call_conrep raises ConrepError when the process exits non-zero
call_conrep(rc) ==
    IF rc # 0 THEN Raise("ConrepError", "conrep failed") ELSE None

conrep_read_settings(be) ==
    LET e == call_conrep(be.read_rc)
    IN  [raised |-> e,
         value  |-> IF e = None THEN parse_dat(be.doc) ELSE <<>>]

SectionLine(k, v) == "<Section name=\"" \o k \o "\">" \o v \o "</Section>"

conrep_file(s) ==
    <<"<Conrep>">> \o [i \in DOMAIN s |-> SectionLine(s[i][1], s[i][2])]
                  \o <<"</Conrep>">>

conrep_write_settings_nocheck(be, s, check) ==
    [file   |-> conrep_file(s),
     called |-> TRUE,
     raised |-> call_conrep(be.write_rc)]

conrep_write_settings(be, s, check) ==
    [file   |-> conrep_file(s),
     called |-> ~check,
     raised |-> IF ~check THEN call_conrep(be.write_rc) ELSE None]

check_settings(old, s) ==
    IF \E i \in DOMAIN s : ~DictHas(old, s[i][1])
    THEN Raise("ConrepError", "setting not known")
    ELSE None

RECURSIVE filter_changed_from(_, _, _)
filter_changed_from(old, s, h) ==
    IF s = <<>> THEN h
    ELSE LET k == Head(s)[1]
             v == Head(s)[2]
         IN  filter_changed_from(old, Tail(s),
                 IF v # DictGet(old, k) THEN DictSet(h, k, v) ELSE h)

filter_changed_settings_all(old, s) == s

filter_changed_settings(old, s) == filter_changed_from(old, s, <<>>)

diff_settings(old, s) ==
    LET items  == SortedItems(s)
        before == [i \in DOMAIN items |->
                      items[i][1] \o " => " \o DictGet(old, items[i][1])]
        after  == [i \in DOMAIN items |->
                      items[i][1] \o " => " \o items[i][2]]
    IN  [before |-> Join("\n", Append(before, "")),
         after  |-> Join("\n", Append(after, ""))]

RECURSIVE dict_update(_, _)
dict_update(r, ys) ==
    IF ys = <<>> THEN r
    ELSE dict_update(DictSet(r, Head(ys)[1], Head(ys)[2]), Tail(ys))

merge_dicts_left(xs, ys) == xs

merge_dicts(xs, ys) == dict_update(xs, ys)

(***************************************************************************)
(* hprcu.py                                                                *)
(***************************************************************************)
\* a child of the root of an Hprcu document; an attribute or child element
\* the element does not carry is the empty string / the empty sequence
Feature(id, name, type, sel, options, value) ==
    [tag |-> "feature", feature_id |-> id, feature_name |-> name,
     feature_type |-> type, selected_option_id |-> sel,
     options |-> options, feature_value |-> value]

Option(id, name) == [option_id |-> id, option_name |-> name]

Attr(k, v) == IF v = "" THEN "" ELSE " " \o k \o "=\"" \o v \o "\""

Child(k, v) == IF v = "" THEN "" ELSE "<" \o k \o ">" \o v \o "</" \o k \o ">"

\* ElementTree writes an element without text and children as <tag ... />
Element(tag, attrs, inner) ==
    IF inner = "" THEN "<" \o tag \o attrs \o " />"
    ELSE "<" \o tag \o attrs \o ">" \o inner \o "</" \o tag \o ">"

et_tostring(f) ==
    IF f.tag # "feature" THEN Element(f.tag, "", "")
    ELSE Element("feature",
                 Attr("feature_id", f.feature_id)
                     \o Attr("feature_type", f.feature_type)
                     \o Attr("selected_option_id", f.selected_option_id),
                 Child("feature_name", f.feature_name)
                     \o Join("", [i \in DOMAIN f.options |->
                            Element("option",
                                    Attr("option_id", f.options[i].option_id),
                                    Child("option_name", f.options[i].option_name))])
                     \o Child("feature_value", f.feature_value))

\* d.write(f) on None raises AttributeError
doc2string(d) ==
    IF d = None
    THEN [raised |-> Raise("AttributeError", "NoneType.write"), value |-> ""]
    ELSE [raised |-> None,
          value  |-> Element("hprcu", "",
                         Join("", [i \in DOMAIN d.root |-> et_tostring(d.root[i])]))]

\* the option ids of f whose option_name is v, in document order
RECURSIVE oids_of(_, _)
oids_of(os, v) ==
    IF os = <<>> THEN <<>>
    ELSE (IF Head(os).option_name = v THEN <<Head(os).option_id>> ELSE <<>>)
         \o oids_of(Tail(os), v)

\* the body of "if name in h" for one feature: lines 129-145
apply_feature_dirty(f, v, ch) ==
    LET oids == oids_of(f.options, v)
    IN  IF f.feature_type = "option"
        THEN IF oids = <<>>
             THEN [f |-> f, changed |-> ch,
                   raised |-> Raise("NameError", "HprcuErrror")]
             ELSE [f |-> [f EXCEPT !.selected_option_id = oids[1]],
                   changed |-> TRUE, raised |-> None]
        ELSE IF f.feature_type = "string"
        THEN [f |-> [f EXCEPT !.feature_value = v],
              changed |-> TRUE, raised |-> None]
        ELSE [f |-> f, changed |-> ch, raised |-> Raise("NameError", "n")]

apply_feature(f, v, ch) ==
    LET oids == oids_of(f.options, v)
    IN  IF f.feature_type = "option"
        THEN IF oids = <<>>
             THEN [f |-> f, changed |-> ch,
                   raised |-> Raise("NameError", "HprcuErrror")]
             ELSE [f |-> [f EXCEPT !.selected_option_id = oids[1]],
                   changed |-> ch \/ f.selected_option_id # oids[1],
                   raised |-> None]
        ELSE IF f.feature_type = "string"
        THEN [f |-> [f EXCEPT !.feature_value = v],
              changed |-> ch \/ f.feature_value # v,
              raised |-> None]
        ELSE [f |-> f, changed |-> ch, raised |-> Raise("NameError", "n")]

\* the loop of apply_settings over the features from position i on; the
\* document is edited in place, so an exception leaves the edits made so far
RECURSIVE apply_from(_, _, _, _, _)
apply_from(fs, i, h, ch, seen) ==
    IF i > Len(fs)
    THEN IF Cardinality(seen) # Len(h)
         THEN [doc |-> [root |-> fs], changed |-> ch,
               raised |-> Raise("HprcuError", "features unknown")]
         ELSE [doc |-> [root |-> fs], changed |-> ch, raised |-> None]
    ELSE LET f == fs[i]
         IN  IF f.tag # "feature" \/ ~DictHas(h, f.feature_name)
             THEN apply_from(fs, i + 1, h, ch, seen)
             ELSE LET a == apply_feature(f, DictGet(h, f.feature_name), ch)
                  IN  IF a.raised # None
                      THEN [doc |-> [root |-> fs], changed |-> ch,
                            raised |-> a.raised]
                      ELSE apply_from([fs EXCEPT ![i] = a.f], i + 1, h,
                                      a.changed, seen \cup {f.feature_name})

apply_settings(d, h) == apply_from(d.root, 1, h, FALSE, {})

RECURSIVE doc2dict_from(_, _)
doc2dict_from(fs, h) ==
    IF fs = <<>> THEN h
    ELSE LET f == Head(fs)
         IN  IF f.tag # "feature" THEN doc2dict_from(Tail(fs), h)
             ELSE IF f.feature_type = "option"
             THEN doc2dict_from(Tail(fs),
                                DictSet(h, f.feature_id, f.selected_option_id))
             ELSE IF f.feature_type = "string"
             THEN doc2dict_from(Tail(fs),
                                DictSet(h, f.feature_id, f.feature_value))
             ELSE doc2dict_from(Tail(fs), h)

doc2dict(d) == doc2dict_from(d.root, <<>>)

\* f.find('option[@option_id="..."]/option_name'): whether there is a match,
\* and the text of the first one
HasSelectedOption(f) ==
    \E i \in DOMAIN f.options : f.options[i].option_id = f.selected_option_id

FindOptionName(f) ==
    f.options[CHOOSE i \in DOMAIN f.options :
        /\ f.options[i].option_id = f.selected_option_id
        /\ \A j \in 1..(i - 1) :
               f.options[j].option_id # f.selected_option_id].option_name

RECURSIVE doc2facts_from(_, _)
doc2facts_from(fs, h) ==
    IF fs = <<>> THEN [raised |-> None, value |-> h]
    ELSE LET f == Head(fs)
         IN  IF f.tag # "feature" THEN doc2facts_from(Tail(fs), h)
             ELSE IF f.feature_type = "option"
             THEN IF ~HasSelectedOption(f)
                  THEN [raised |-> Raise("AttributeError", "NoneType.text"),
                        value |-> h]
                  ELSE doc2facts_from(Tail(fs),
                           DictSet(h, f.feature_name, FindOptionName(f)))
             ELSE IF f.feature_type = "string"
             THEN doc2facts_from(Tail(fs),
                      DictSet(h, f.feature_name, f.feature_value))
             ELSE doc2facts_from(Tail(fs), h)

doc2facts(d) ==
    IF d = None THEN [raised |-> None, value |-> <<>>]
    ELSE doc2facts_from(d.root, <<>>)

\* the loop of doc_yield_changes over the remaining items of y
RECURSIVE yield_from(_, _)
yield_from(x, y) ==
    IF y = <<>> THEN [raised |-> None, value |-> FALSE]
    ELSE LET k == Head(y)[1]
             v == Head(y)[2]
         IN  IF ~DictHas(x, k)
             THEN [raised |-> Raise("HprcuError", "feature not known"),
                   value |-> FALSE]
             ELSE IF DictGet(x, k) # v
             THEN [raised |-> None, value |-> TRUE]
             ELSE yield_from(x, Tail(y))

doc_yield_changes(od, d) == yield_from(doc2dict(od), doc2dict(d))

mk_diff(od, d) ==
    LET b == doc2string(od)
        a == doc2string(d)
    IN  IF b.raised # None THEN [raised |-> b.raised, value |-> None]
        ELSE IF a.raised # None THEN [raised |-> a.raised, value |-> None]
        ELSE [raised |-> None,
              value  |-> [before |-> b.value, after |-> a.value]]

\* call_hprcu raises HprcuError when the process exits non-zero
call_hprcu(rc) ==
    IF rc # 0 THEN Raise("HprcuError", "hprcu failed") ELSE None

hprcu_read_settings(be) ==
    LET e == call_hprcu(be.read_rc)
    IN  [raised |-> e, value |-> IF e = None THEN be.doc ELSE None]

hprcu_write_settings(be, d, check) ==
    [file   |-> doc2string(d).value,
     called |-> ~check,
     raised |-> IF ~check THEN call_hprcu(be.write_rc) ELSE None]

(***************************************************************************)
(* run_module, as steps over the record of one invocation.                 *)
(***************************************************************************)
NewRun(ad, p, chk, dif, be) ==
    [adapter |-> ad, params |-> p, check_mode |-> chk, diff_mode |-> dif,
     backend |-> be, pc |-> "read",
     old_settings |-> <<>>, settings |-> <<>>,
     old_doc |-> None, doc |-> None, changed |-> FALSE,
     result |-> [changed |-> FALSE, ansible_facts |-> <<>>, diff |-> None],
     outcome |-> "running", err |-> None, calls |-> <<>>, loaded |-> <<>>]

\* except ConrepError / except HprcuError: module.fail_json(msg, **result);
\* any other exception leaves run_module uncaught
Raised(r, e) ==
    [r EXCEPT !.pc = "done", !.err = e,
              !.outcome = IF (r.adapter = "conrep" /\ e.type = "ConrepError")
                             \/ (r.adapter = "hprcu" /\ e.type = "HprcuError")
                          THEN "fail_json" ELSE "exception"]

Called(r, op, rc) == [r EXCEPT !.calls = Append(@, [op |-> op, rc |-> rc])]

conrep_read(r) ==
    LET s  == IF r.params.settings_xml # None
              THEN parse_dat(r.params.settings_xml)
              ELSE r.params.settings
        rd == conrep_read_settings(r.backend)
        c  == Called(r, "-s", r.backend.read_rc)
    IN  IF rd.raised # None THEN Raised([c EXCEPT !.settings = s], rd.raised)
        ELSE [c EXCEPT !.settings = s, !.old_settings = rd.value,
                       !.pc = "validate"]

conrep_validate(r) ==
    LET e == check_settings(r.old_settings, r.settings)
        s == filter_changed_settings(r.old_settings, r.settings)
    IN  IF e # None THEN Raised(r, e)
        ELSE [r EXCEPT !.settings = s,
                       !.result.diff = IF r.diff_mode
                                       THEN diff_settings(r.old_settings, s)
                                       ELSE @,
                       !.pc = "write"]

conrep_write_always(r) ==
    LET w == conrep_write_settings(r.backend, r.settings, r.check_mode)
        c == IF w.called
             THEN [Called(r, "-l", r.backend.write_rc)
                      EXCEPT !.loaded = Append(@, w.file)]
             ELSE r
    IN  IF w.raised # None THEN Raised(c, w.raised)
        ELSE [c EXCEPT !.result.changed = TRUE, !.pc = "finish"]

conrep_write(r) ==
    LET w == conrep_write_settings(r.backend, r.settings, r.check_mode)
        c == IF w.called
             THEN [Called(r, "-l", r.backend.write_rc)
                      EXCEPT !.loaded = Append(@, w.file)]
             ELSE r
    IN  IF r.settings = <<>> THEN [r EXCEPT !.pc = "finish"]
        ELSE IF w.raised # None THEN Raised(c, w.raised)
        ELSE [c EXCEPT !.result.changed = TRUE, !.pc = "finish"]

conrep_finish(r) ==
    [r EXCEPT !.result.ansible_facts =
                  IF r.params.facts
                  THEN <<<<"conrep", merge_dicts(r.old_settings, r.settings)>>>>
                  ELSE @,
              !.outcome = "exit_json", !.pc = "done"]

hprcu_read(r) ==
    LET rd == hprcu_read_settings(r.backend)
        c  == Called(r, "-s", r.backend.read_rc)
    IN  IF rd.raised # None THEN Raised(c, rd.raised)
        ELSE [c EXCEPT !.old_doc = rd.value, !.pc = "desired"]

hprcu_desired(r) ==
    LET a  == apply_settings(r.old_doc, r.params.settings)
        r1 == IF r.params.settings # <<>>
              THEN [r EXCEPT !.doc = a.doc, !.changed = a.changed]
              ELSE r
        y  == doc_yield_changes(r.old_doc, r.params.settings_xml)
    IN  IF r.params.settings # <<>> /\ a.raised # None
        THEN Raised([r EXCEPT !.doc = a.doc], a.raised)
        ELSE IF r.params.settings_xml = None THEN [r1 EXCEPT !.pc = "diff"]
        ELSE IF y.raised # None
             THEN Raised([r1 EXCEPT !.doc = r.params.settings_xml], y.raised)
        ELSE [r1 EXCEPT !.doc = r.params.settings_xml, !.changed = y.value,
                        !.pc = "diff"]

hprcu_diff(r) ==
    LET d == mk_diff(r.old_doc, r.doc)
    IN  IF ~r.diff_mode THEN [r EXCEPT !.pc = "write"]
        ELSE IF d.raised # None THEN Raised(r, d.raised)
        ELSE [r EXCEPT !.result.diff = d.value, !.pc = "write"]

hprcu_write(r) ==
    LET w == hprcu_write_settings(r.backend, r.doc, r.check_mode)
        c == IF w.called
             THEN [Called(r, "-l", r.backend.write_rc)
                      EXCEPT !.loaded = Append(@, w.file)]
             ELSE r
    IN  IF ~r.changed THEN [r EXCEPT !.pc = "finish"]
        ELSE IF w.raised # None THEN Raised(c, w.raised)
        ELSE [c EXCEPT !.result.changed = TRUE, !.pc = "finish"]

hprcu_finish(r) ==
    LET f == doc2facts(IF r.doc # None THEN r.doc ELSE r.old_doc)
    IN  IF ~r.params.facts
        THEN [r EXCEPT !.outcome = "exit_json", !.pc = "done"]
        ELSE IF f.raised # None THEN Raised(r, f.raised)
        ELSE [r EXCEPT !.result.ansible_facts = <<<<"hprcu", f.value>>>>,
                       !.outcome = "exit_json", !.pc = "done"]

run_step(r) ==
    IF r.adapter = "conrep"
    THEN CASE r.pc = "read"     -> conrep_read(r)
           [] r.pc = "validate" -> conrep_validate(r)
           [] r.pc = "write"    -> conrep_write(r)
           [] r.pc = "finish"   -> conrep_finish(r)
    ELSE CASE r.pc = "read"     -> hprcu_read(r)
           [] r.pc = "desired"  -> hprcu_desired(r)
           [] r.pc = "diff"     -> hprcu_diff(r)
           [] r.pc = "write"    -> hprcu_write(r)
           [] r.pc = "finish"   -> hprcu_finish(r)

\* run_module from the state r to its end
RECURSIVE run_module(_)
run_module(r) == IF r.pc = "done" THEN r ELSE run_module(run_step(r))

(***************************************************************************)
(* The inputs of the model.                                                *)
(***************************************************************************)
\* all sequences over U of length at most n
SeqsUpTo(U, n) == UNION {[1..k -> U] : k \in 0..n}

\* the elements of s at the positions I, in order
RECURSIVE Pick(_, _)
Pick(s, I) ==
    IF I = {} THEN <<>>
    ELSE LET i == CHOOSE i \in I : \A j \in I : i <= j
         IN  <<s[i]>> \o Pick(s, I \ {i})

\* a backend dump lists every setting once, in the backend's own order: the
\* documents made of at most n elements of U, in the order of U, no two of
\* them for the same setting
Dumps(U, slot, n) ==
    {[root |-> Pick(U, I)] :
        I \in {J \in SUBSET DOMAIN U :
                  /\ Cardinality(J) <= n
                  /\ \A i, j \in J : i # j => slot[i] # slot[j]}}

\* the dicts with at most n of the keys of names (kept in the order of names)
\* and a value out of vals[key] for each
Dicts(names, vals, n) ==
    UNION {{[i \in DOMAIN Pick(names, I) |->
                <<Pick(names, I)[i], f[Pick(names, I)[i]]>>] :
              f \in [{names[i] : i \in I} -> UNION {vals[k] : k \in DOMAIN vals}]}
           : I \in {J \in SUBSET DOMAIN names : Cardinality(J) <= n}}

TypedDicts(names, vals, n) ==
    {d \in Dicts(names, vals, n) : \A i \in DOMAIN d : d[i][2] \in vals[d[i][1]]}

Comment == [tag |-> "Comment", name |-> "", text |-> "", kids |-> <<>>]

ConrepDumpElems ==
    <<Section("PowerMonitoring", "Enabled", <<>>),
      Section("PowerMonitoring", "Disabled", <<>>),
      Section("Turbo", "Enabled", <<>>),
      Section("Turbo", "", <<"<Level>1</Level>", "<Level>2</Level>">>),
      Comment>>

ConrepDumpSlots == <<"PowerMonitoring", "PowerMonitoring", "Turbo", "Turbo", "">>

ConrepXmlElems ==
    {Section("PowerMonitoring", "Enabled", <<>>),
     Section("PowerMonitoring", "Disabled", <<>>),
     Section("Turbo", "", <<"<Level>1</Level>", "<Level>2</Level>">>),
     Section("Nope", "Enabled", <<>>)}

ConrepVals ==
    [PowerMonitoring |-> {"Enabled", "Disabled"},
     Turbo |-> {"Enabled", "Disabled"},
     Nope |-> {"Enabled", "Disabled"}]

ConrepSettings == TypedDicts(NameOrder, ConrepVals, MaxSettings)

\* the settings given next to a settings_xml
ConrepBoth ==
    {<<>>, <<<<"Nope", "Enabled">>>>, <<<<"PowerMonitoring", "Enabled">>>>}

OnOff == <<Option("1", "Enabled"), Option("2", "Disabled")>>

Hyperthreading(sel) == Feature("1", "Hyperthreading", "option", sel, OnOff, "")

Tag(v) == Feature("2", "Tag", "string", "", <<>>, v)

Numeric == Feature("3", "Numeric", "numeric", "", <<>>, "7")

Stranger == Feature("9", "Nope", "string", "", <<>>, "Enabled")

Banner ==
    [tag |-> "banner", feature_id |-> "", feature_name |-> "",
     feature_type |-> "", selected_option_id |-> "", options |-> <<>>,
     feature_value |-> ""]

HprcuDumpElems ==
    <<Banner, Tag("Enabled"), Hyperthreading("1"), Hyperthreading("2"), Numeric>>

HprcuDumpSlots == <<"", "2", "1", "1", "3">>

HprcuXmlElems ==
    {Hyperthreading("1"), Hyperthreading("2"), Tag("Disabled"), Stranger}

HprcuNames == <<"Hyperthreading", "Nope", "Numeric", "Tag">>

HprcuVals ==
    [Hyperthreading |-> {"Enabled", "Disabled", "Bogus"},
     Tag |-> {"Enabled", "Disabled"},
     Numeric |-> {"Enabled"},
     Nope |-> {"Enabled"}]

HprcuSettings == TypedDicts(HprcuNames, HprcuVals, MaxSettings)

HprcuBoth ==
    {<<>>, <<<<"Nope", "Enabled">>>>, <<<<"Hyperthreading", "Disabled">>>>}

\* exit statuses of the dump and of the load invocation
Statuses == {<<0, 0>>, <<1, 0>>, <<0, 1>>}

Backends(docs) ==
    {[doc |-> d, read_rc |-> st[1], write_rc |-> st[2]] :
        d \in docs, st \in Statuses}

Params(only, xmls, both) ==
    {[facts |-> f, settings |-> s, settings_xml |-> None] :
        f \in BOOLEAN, s \in only}
    \cup {[facts |-> f, settings |-> s, settings_xml |-> [root |-> x]] :
        f \in BOOLEAN, s \in both, x \in xmls}

ConrepRuns ==
    {NewRun("conrep", p, chk, dif, be) :
        p \in Params(ConrepSettings, SeqsUpTo(ConrepXmlElems, MaxXml), ConrepBoth),
        chk \in BOOLEAN, dif \in BOOLEAN,
        be \in Backends(Dumps(ConrepDumpElems, ConrepDumpSlots, MaxDump))}

HprcuRuns ==
    {NewRun("hprcu", p, chk, dif, be) :
        p \in Params(HprcuSettings, SeqsUpTo(HprcuXmlElems, MaxXml), HprcuBoth),
        chk \in BOOLEAN, dif \in BOOLEAN,
        be \in Backends(Dumps(HprcuDumpElems, HprcuDumpSlots, MaxDump))}

(***************************************************************************)
(* The state machine of one invocation.                                    *)
(***************************************************************************)
Cur ==
    [adapter |-> adapter, params |-> params, check_mode |-> check_mode,
     diff_mode |-> diff_mode, backend |-> backend, pc |-> pc,
     old_settings |-> old_settings, settings |-> settings,
     old_doc |-> old_doc, doc |-> doc, changed |-> changed,
     result |-> result, outcome |-> outcome, err |-> err,
     calls |-> calls, loaded |-> loaded]

Become(r) ==
    /\ adapter' = r.adapter
    /\ params' = r.params
    /\ check_mode' = r.check_mode
    /\ diff_mode' = r.diff_mode
    /\ backend' = r.backend
    /\ pc' = r.pc
    /\ old_settings' = r.old_settings
    /\ settings' = r.settings
    /\ old_doc' = r.old_doc
    /\ doc' = r.doc
    /\ changed' = r.changed
    /\ result' = r.result
    /\ outcome' = r.outcome
    /\ err' = r.err
    /\ calls' = r.calls
    /\ loaded' = r.loaded

Is(r) ==
    /\ adapter = r.adapter
    /\ params = r.params
    /\ check_mode = r.check_mode
    /\ diff_mode = r.diff_mode
    /\ backend = r.backend
    /\ pc = r.pc
    /\ old_settings = r.old_settings
    /\ settings = r.settings
    /\ old_doc = r.old_doc
    /\ doc = r.doc
    /\ changed = r.changed
    /\ result = r.result
    /\ outcome = r.outcome
    /\ err = r.err
    /\ calls = r.calls
    /\ loaded = r.loaded

Init ==
    /\ \E r \in ConrepRuns \cup HprcuRuns : Is(r)
    /\ a_doc = None
    /\ a_h = <<>>
    /\ a_log = <<>>

ConrepRead ==
    /\ adapter = "conrep" /\ pc = "read"
    /\ Become(conrep_read(Cur))
    /\ UNCHANGED apply_vars

ConrepValidate ==
    /\ adapter = "conrep" /\ pc = "validate"
    /\ Become(conrep_validate(Cur))
    /\ UNCHANGED apply_vars

ConrepWrite ==
    /\ adapter = "conrep" /\ pc = "write"
    /\ Become(conrep_write(Cur))
    /\ UNCHANGED apply_vars

ConrepFinish ==
    /\ adapter = "conrep" /\ pc = "finish"
    /\ Become(conrep_finish(Cur))
    /\ UNCHANGED apply_vars

HprcuRead ==
    /\ adapter = "hprcu" /\ pc = "read"
    /\ Become(hprcu_read(Cur))
    /\ UNCHANGED apply_vars

HprcuDesired ==
    /\ adapter = "hprcu" /\ pc = "desired"
    /\ Become(hprcu_desired(Cur))
    /\ UNCHANGED apply_vars

HprcuDiff ==
    /\ adapter = "hprcu" /\ pc = "diff"
    /\ Become(hprcu_diff(Cur))
    /\ UNCHANGED apply_vars

HprcuWrite ==
    /\ adapter = "hprcu" /\ pc = "write"
    /\ Become(hprcu_write(Cur))
    /\ UNCHANGED apply_vars

HprcuFinish ==
    /\ adapter = "hprcu" /\ pc = "finish"
    /\ Become(hprcu_finish(Cur))
    /\ UNCHANGED apply_vars

Next ==
    \/ ConrepRead
    \/ ConrepValidate
    \/ ConrepWrite
    \/ ConrepFinish
    \/ HprcuRead
    \/ HprcuDesired
    \/ HprcuDiff
    \/ HprcuWrite
    \/ HprcuFinish

Spec == Init /\ [][Next]_vars

(***************************************************************************)
(* apply_settings called repeatedly on one document with one mapping.      *)
(***************************************************************************)
\* calls of apply_settings in one behaviour
MaxApply == 2

Idle ==
    [NewRun("hprcu", [facts |-> FALSE, settings |-> <<>>, settings_xml |-> None],
            FALSE, FALSE, [doc |-> None, read_rc |-> 0, write_rc |-> 0])
        EXCEPT !.pc = "done"]

InitApply ==
    /\ Is(Idle)
    /\ a_doc \in Dumps(HprcuDumpElems, HprcuDumpSlots, MaxDump)
    /\ a_h \in HprcuSettings
    /\ a_log = <<>>

ApplySettings ==
    /\ Len(a_log) < MaxApply
    /\ LET a == apply_settings(a_doc, a_h)
       IN  /\ a_doc' = a.doc
           /\ a_log' = Append(a_log, [before |-> a_doc, after |-> a.doc,
                                      returned |-> a.changed,
                                      raised |-> a.raised])
    /\ UNCHANGED <<a_h, run_vars>>

NextApply == ApplySettings

SpecApply == InitApply /\ [][NextApply]_vars

(***************************************************************************)
(* Vocabulary of the properties.                                           *)
(***************************************************************************)
Items(d) == {d[i] : i \in DOMAIN d}

Done == pc = "done"

Loads == Cardinality({i \in DOMAIN calls : calls[i].op = "-l"})

ReadSucceeded == \E i \in DOMAIN calls : calls[i] = [op |-> "-s", rc |-> 0]

XmlGiven == params.settings_xml # None

Features(d) == {d.root[i] : i \in {j \in DOMAIN d.root : d.root[j].tag = "feature"}}

\* the current state of the flat adapter, and the desired state it is given
CurrentMap == parse_dat(backend.doc)

DesiredMap == IF XmlGiven THEN parse_dat(params.settings_xml) ELSE params.settings

\* a key of the desired state that the current state does not have
SettingsUnknown ==
    IF adapter = "conrep"
    THEN \E k \in DictKeys(params.settings) : ~DictHas(CurrentMap, k)
    ELSE \E k \in DictKeys(params.settings) :
            \A f \in Features(backend.doc) : f.feature_name # k

XmlUnknown ==
    /\ XmlGiven
    /\ IF adapter = "conrep"
       THEN \E k \in DictKeys(parse_dat(params.settings_xml)) :
               ~DictHas(CurrentMap, k)
       ELSE \E g \in Features(params.settings_xml) :
               \A f \in Features(backend.doc) : f.feature_id # g.feature_id

DesiredUnknown == IF XmlGiven THEN XmlUnknown ELSE SettingsUnknown

UnknownSettingReported ==
    /\ outcome = "fail_json"
    /\ err.msg \in {"setting not known", "features unknown", "feature not known"}

\* every value the settings mapping gives to an option feature of the
\* current document is the display name of one of its options
OptionValuesValid ==
    \A f \in Features(backend.doc) :
        (f.feature_type = "option" /\ DictHas(params.settings, f.feature_name)) =>
            \E i \in DOMAIN f.options :
                f.options[i].option_name = DictGet(params.settings, f.feature_name)

\* every value the settings mapping gives to a feature of the current
\* document is one the feature can take
SettingsValuesValid ==
    /\ OptionValuesValid
    /\ \A f \in Features(backend.doc) :
           DictHas(params.settings, f.feature_name) =>
               f.feature_type \in {"option", "string"}

(***************************************************************************)
(* Properties.                                                             *)
(***************************************************************************)
\* C1: for both adapters and both ways of giving the desired state, when a
\* desired key (section name, feature name, feature id of the candidate
\* document) is absent from the current state that was read, the load
\* invocation never occurs, changed stays false and the run ends in a failure
\* that reports an unknown setting, whatever the order of the entries and
\* whatever values the features can take the other entries carry.
C1_UnknownKeyNeverWrites ==
    (backend.read_rc = 0 /\ DesiredUnknown /\ SettingsValuesValid) =>
        /\ Loads = 0
        /\ loaded = <<>>
        /\ result.changed = FALSE
        /\ Done => UnknownSettingReported

\* C2: a run in check-mode never invokes the load operation, and it ends with
\* the changed flag and the diff of the run on the same inputs with check-mode
\* off and a load that exits 0.
C2_CheckModeReportsAsIfApplied ==
    check_mode =>
        /\ Loads = 0
        /\ loaded = <<>>
        /\ Done =>
              LET o == run_module(NewRun(adapter, params, FALSE, diff_mode,
                                         [backend EXCEPT !.write_rc = 0]))
              IN  /\ result.changed = o.result.changed
                  /\ result.diff = o.result.diff

C2_Witness ==
    /\ Done
    /\ check_mode
    /\ outcome = "exit_json"
    /\ result.changed
    /\ result.diff # None

\* the entries of the desired mapping whose value differs from the current one
ChangedSubset == {kv \in Items(DesiredMap) : kv[2] # DictGet(CurrentMap, kv[1])}

\* the flat adapter has read C and validated a desired D, keys(D) a subset of
\* keys(C)
C3_Case ==
    /\ adapter = "conrep"
    /\ ReadSucceeded
    /\ pc \in {"write", "finish", "done"}
    /\ DictKeys(DesiredMap) \subseteq DictKeys(CurrentMap)

\* filter_changed_settings(C, D) is exactly the entries of D that differ from
\* C, and a document handed to the load operation holds exactly one Section
\* line per such entry
C3_SubsetAndFileExact ==
    /\ Items(filter_changed_settings(CurrentMap, DesiredMap)) = ChangedSubset
    /\ Items(settings) = ChangedSubset
    /\ Len(settings) = Cardinality(ChangedSubset)
    /\ \A i \in DOMAIN loaded :
          /\ Len(loaded[i]) = Cardinality(ChangedSubset) + 2
          /\ {loaded[i][j] : j \in 2..(Len(loaded[i]) - 1)}
                 = {SectionLine(kv[1], kv[2]) : kv \in ChangedSubset}

\* the load operation was invoked and exited non-zero
LoadFailed == \E i \in DOMAIN calls : calls[i].op = "-l" /\ calls[i].rc # 0

\* C3 as stated: flat adapter, keys(D) a subset of keys(C):
\* filter_changed_settings(C, D) is exactly the entries of D that differ from
\* C, the document handed to the load operation holds exactly these keys, and
\* the run reports changed=true iff there is such an entry.
C3_ChangedSubsetExact ==
    C3_Case =>
        /\ C3_SubsetAndFileExact
        /\ Done => (result.changed <=> ChangedSubset # {})

\* C3 as amended: flat adapter, keys(D) a subset of keys(C):
\* filter_changed_settings(C, D) is exactly the entries of D that differ from
\* C, the document handed to the load operation holds exactly these keys, and
\* the run reports changed=true iff there is such an entry and the load
\* operation did not exit non-zero; when it did, the run ends in fail_json
\* with changed=false.
C3_ChangedSubsetExactUnlessLoadFails ==
    C3_Case =>
        /\ C3_SubsetAndFileExact
        /\ Done => (result.changed <=> (ChangedSubset # {} /\ ~LoadFailed))
        /\ (Done /\ LoadFailed) => outcome = "fail_json"
        /\ (Done /\ ~LoadFailed) => outcome = "exit_json"

C3_Witness ==
    /\ adapter = "conrep"
    /\ outcome = "exit_json"
    /\ Len(DesiredMap) = 2
    /\ Len(settings) = 1
    /\ Len(loaded) = 1
    /\ result.changed

\* the facts of the current state, by adapter
CurrentFacts ==
    IF adapter = "conrep" THEN CurrentMap ELSE doc2facts(backend.doc).value

ReportedFacts == result.ansible_facts[1][2]

\* C4: facts requested, desired state a mapping D with keys(D) a subset of
\* keys(C): the facts of a run that ends in exit_json are merge(C, D), every
\* name of D with D's value, every other name of C with its current value,
\* and in the structured document the option selected for a name of D is the
\* one whose display name D gives.
C4_FactsAreMerge ==
    (/\ outcome = "exit_json"
     /\ params.facts
     /\ ~XmlGiven
     /\ DictKeys(params.settings) \subseteq DictKeys(CurrentFacts)) =>
        /\ result.ansible_facts # <<>>
        /\ result.ansible_facts[1][1] = adapter
        /\ DictKeys(ReportedFacts) = DictKeys(CurrentFacts)
        /\ \A k \in DictKeys(ReportedFacts) :
              DictGet(ReportedFacts, k) =
                  IF DictHas(params.settings, k)
                  THEN DictGet(params.settings, k)
                  ELSE DictGet(CurrentFacts, k)
        /\ (adapter = "hprcu" /\ doc # None) =>
              \A f \in Features(doc) :
                  (f.feature_type = "option" /\ DictHas(params.settings, f.feature_name)) =>
                      \E i \in DOMAIN f.options :
                          /\ f.options[i].option_id = f.selected_option_id
                          /\ f.options[i].option_name
                                 = DictGet(params.settings, f.feature_name)

C4_Witness ==
    /\ adapter = "hprcu"
    /\ outcome = "exit_json"
    /\ params.facts
    /\ ~XmlGiven
    /\ result.changed
    /\ Hyperthreading("1") \in Features(backend.doc)
    /\ Hyperthreading("2") \in Features(doc)
    /\ DictHas(ReportedFacts, "Tag")
    /\ ~DictHas(params.settings, "Tag")
    /\ DictGet(ReportedFacts, "Hyperthreading") = "Disabled"

\* C5: when an apply_settings(doc, D) returns without error, the next
\* apply_settings(doc, D) on the resulting document returns changed=false and
\* leaves the document as it was.
C5_ApplyIdempotent ==
    \A i \in 2..Len(a_log) :
        a_log[i - 1].raised = None =>
            /\ a_log[i].raised = None
            /\ a_log[i].returned = FALSE
            /\ a_log[i].after = a_log[i - 1].after

C5_Witness ==
    /\ Len(a_log) = 2
    /\ a_log[1].raised = None
    /\ a_log[1].returned = TRUE
    /\ a_log[1].after # a_log[1].before

\* the mapping selects, for an option feature of d, a name that is none of
\* its options
UnknownOptionSelected(d, h) ==
    \E f \in Features(d) :
        /\ f.feature_type = "option"
        /\ DictHas(h, f.feature_name)
        /\ \A i \in DOMAIN f.options :
              f.options[i].option_name # DictGet(h, f.feature_name)

\* C6: when the mapping selects an option display name that the feature does
\* not have, apply_settings raises HprcuError (the error run_module catches)
\* and the document it was given is left as it was.
C6_UnknownOptionLeavesDocument ==
    \A i \in DOMAIN a_log :
        UnknownOptionSelected(a_log[i].before, a_h) =>
            /\ a_log[i].raised # None
            /\ a_log[i].raised.type = "HprcuError"
            /\ a_log[i].after = a_log[i].before

\* C7: when the current document holds a feature whose feature_type is
\* neither option nor string (and the desired state has no unknown key and
\* no unknown option value, which are errors of their own), the run ends in
\* fail_json for an unknown feature type, whether or not the desired state
\* names the feature: it never exits successfully and never loads.
C7_UnknownFeatureTypeFails ==
    (/\ adapter = "hprcu"
     /\ backend.read_rc = 0
     /\ \E f \in Features(backend.doc) : f.feature_type \notin {"option", "string"}
     /\ ~SettingsUnknown /\ ~XmlUnknown /\ OptionValuesValid) =>
        /\ outcome # "exit_json"
        /\ Loads = 0
        /\ Done => (outcome = "fail_json" /\ err.msg = "unknown feature type")

\* validation has nothing to reject in the desired state
ValidationPasses ==
    IF adapter = "conrep" THEN ~DesiredUnknown
    ELSE ~SettingsUnknown /\ ~XmlUnknown /\ SettingsValuesValid

NoDesiredState == params.settings = <<>> /\ ~XmlGiven

\* C8: when a diff was requested, the read succeeded and validation passed,
\* the result of the run holds a diff with a before and an after text; the
\* run without any desired state ends in exit_json with changed=false and
\* such a diff.
C8_DiffAlwaysProduced ==
    (Done /\ diff_mode /\ backend.read_rc = 0 /\ ValidationPasses) =>
        /\ result.diff # None
        /\ NoDesiredState => (outcome = "exit_json" /\ result.changed = FALSE)

\* C9: when settings_xml is given, the run ends as the run with the same
\* settings_xml and an empty settings mapping ends: same success or failure,
\* same result (changed, diff, facts), same document loaded.
C9_XmlTakesPrecedence ==
    (Done /\ XmlGiven) =>
        LET o == run_module(NewRun(adapter, [params EXCEPT !.settings = <<>>],
                                   check_mode, diff_mode, backend))
        IN  /\ outcome = o.outcome
            /\ err = o.err
            /\ result = o.result
            /\ loaded = o.loaded

\* the change the run has computed is not empty
ChangeComputed == IF adapter = "conrep" THEN settings # <<>> ELSE changed

\* the desired state is empty or asks for what the current state already is
DesiredIsCurrent ==
    IF adapter = "conrep"
    THEN \A kv \in Items(DesiredMap) :
            DictHas(CurrentMap, kv[1]) /\ DictGet(CurrentMap, kv[1]) = kv[2]
    ELSE IF XmlGiven
    THEN \A kv \in Items(doc2dict(params.settings_xml)) :
            /\ DictHas(doc2dict(backend.doc), kv[1])
            /\ DictGet(doc2dict(backend.doc), kv[1]) = kv[2]
    ELSE \A kv \in Items(params.settings) :
            DictHas(CurrentFacts, kv[1]) /\ DictGet(CurrentFacts, kv[1]) = kv[2]

\* C10: the load operation is invoked at most once, and only by the write
\* step, after a read that exited 0, with no error raised, a non-empty
\* computed change and check-mode off; a read that exits non-zero ends the run
\* in fail_json without a load; a desired state that is empty or equal to the
\* current state ends the run with changed=false and without a load.
C10_WriteOnlyAfterValidatedChange ==
    /\ [][Loads' # Loads =>
            /\ Loads = 0
            /\ Loads' = 1
            /\ pc = "write"
            /\ ReadSucceeded
            /\ err = None
            /\ ChangeComputed
            /\ ~check_mode]_vars
    /\ [](Loads <= 1)
    /\ []((Done /\ backend.read_rc # 0) => (outcome = "fail_json" /\ Loads = 0))
    /\ []((Done /\ DesiredIsCurrent) => (result.changed = FALSE /\ Loads = 0))

C10_Witness ==
    /\ Done
    /\ outcome = "exit_json"
    /\ Loads = 1
    /\ calls = <<[op |-> "-s", rc |-> 0], [op |-> "-l", rc |-> 0]>>
    /\ result.changed

====
